---- MODULE Spec2Model ----
(***************************************************************************)
(* Generic CRUD controller (BaseController) of the invoice platform, with  *)
(* the pagination helpers and the centralized error handler of the shared  *)
(* library, over one Mongoose collection.                                  *)
(***************************************************************************)
EXTENDS Integers, Sequences, FiniteSets, TLC

\* ------------------------------------------------------------------ bounds
MaxIds == 2            \* distinct ObjectIds the collection can ever hold
MaxQuery == 2          \* largest magnitude of a numeric page / limit parameter
MaxInflight == 2       \* requests a service has in flight at once
MaxSignals == 2        \* termination signals a process receives
MaxRegs == 3           \* register requests the auth service serves
MaxChecks == 2         \* services whose health the gateway checks
MaxWait == 7           \* seconds a health request is observed for
MaxFlight == 2         \* requests of the controller in flight at once

\* ------------------------------------------------------- values and inputs
Missing == "missing"   \* a field that is not present in a document / payload
NoUser == "none"       \* req.user is undefined (no principal attached)
Users == {"A", "B"}
Principals == Users \cup {NoUser}

Ids == 1..MaxIds       \* well-formed ObjectIds
BadId == -1            \* an identifier ObjectId.isValid rejects
ReqIds == Ids \cup {BadId}

Past == "past"         \* a date supplied by the caller
Now == "now"           \* new Date() / Date.now at the time of the request
NoName == <<>>        \* the name field is not present
Names == {<<"A", "c">>, <<"O", "t">>}
\* ?search= absent, "ac", "." and "("
Searches == {<<>>, <<"a", "c">>, <<".">>, <<"(">>}

\* opts: the options of the controller and of the schema; store: the
\* collection, a function from the _id of each stored document to it;
\* creator: for every _id ever created, the principal of the create request;
\* pag: the pagination helper's input and output; err: an error on its way
\* through errorHandler and the response it is answered with; svc: the
\* process of one service (ServiceFramework); auth: the users collection and
\* the register requests in flight of the auth service; hc: the outbound
\* health checks of the gateway; flight: the requests of the controller that
\* wait for a database operation.
VARIABLES opts, store, creator, pag, err, svc, auth, hc, flight
vars == <<opts, store, creator, pag, err, svc, auth, hc, flight>>

\* --------------------------------------------------------------- payloads
PayloadFields ==
  {"_id", "user", "name", "createdAt", "createdBy", "updatedAt", "updatedBy",
   "deletedAt", "deletedBy"}

Absent(f) == IF f = "_id" THEN 0 ELSE IF f = "name" THEN NoName ELSE Missing
Has(p, f) == p[f] # Absent(f)

\* ------------------------------------------------------ shared library
\* errorHandler: `err.status || res.statusCode !== 200 ? res.statusCode : 500`
\* parses as `(err.status || res.statusCode !== 200) ? res.statusCode : 500`.
\* errStatus = 0 stands for an error with no status attached.
errorHandler(errStatus, resStatusCode) ==
  IF errStatus # 0 \/ resStatusCode # 200 THEN resStatusCode ELSE 500

NoMeta ==
  [page |-> 0, limit |-> 0, skip |-> 0, total |-> 0, totalPages |-> 0,
   hasNext |-> FALSE, hasPrev |-> FALSE]

NoPayload == [f \in PayloadFields |-> Absent(f)]

\* A response: the status and what res.json sends (message, data and, for a
\* list, the pagination block).
Response(status, message, data, meta) ==
  [status |-> status, message |-> message, data |-> data, meta |-> meta]

\* ok / created / fail of the shared library
ok(message, data, meta) == Response(200, message, data, meta)
created(id) == Response(201, "", <<id>>, NoMeta)
fail(status, message) == Response(status, message, <<>>, NoMeta)
\* next(error): the error reaches errorHandler on a response whose status is
\* still the default 200
nextError(errStatus, message) ==
  Response(errorHandler(errStatus, 200), message, <<>>, NoMeta)

validateObjectId(id) == id \in Ids

\* ------------------------------------------------------ the collection
\* A query filter as the handlers build it: _id, the ownership field
\* ("any" = no filter on it) and deletedAt ("any", {$exists:false},
\* {$exists:true}).
Query(id, owner, deletedAt) == [id |-> id, owner |-> owner, deletedAt |-> deletedAt]

\* a filter that leaves _id out
Matches_noId(q, d) ==
  /\ q.owner = "any" \/ d.user = q.owner
  /\ \/ q.deletedAt = "any"
     \/ q.deletedAt = "absent" /\ d.deletedAt = Missing
     \/ q.deletedAt = "present" /\ d.deletedAt # Missing

\* a filter that leaves deletedAt out
Matches_anyDeletedAt(q, d) ==
  /\ q.id = 0 \/ d._id = q.id
  /\ q.owner = "any" \/ d.user = q.owner

Matches(q, d) ==
  /\ q.id = 0 \/ d._id = q.id
  /\ q.owner = "any" \/ d.user = q.owner
  /\ \/ q.deletedAt = "any"
     \/ q.deletedAt = "absent" /\ d.deletedAt = Missing
     \/ q.deletedAt = "present" /\ d.deletedAt # Missing

Matching(s, q) == {i \in DOMAIN s : Matches(q, s[i])}

\* Model.create: the document Mongoose builds from the payload; the schema
\* gives createdAt its default (Date.now) when the payload has none.
NewDoc(id, payload) ==
  [_id |-> id, user |-> payload.user, name |-> payload.name,
   createdAt |-> IF payload.createdAt = Missing THEN Now ELSE payload.createdAt,
   createdBy |-> payload.createdBy,
   updatedAt |-> payload.updatedAt, updatedBy |-> payload.updatedBy,
   deletedAt |-> payload.deletedAt, deletedBy |-> payload.deletedBy]

\* An unique index on name (when the schema declares one) rejects a second
\* document with the same key; a missing field is indexed as null.
DuplicateName(s, self, name) ==
  opts.uniqueName /\ \E i \in DOMAIN s : i # self /\ s[i].name = name

\* Mongoose's results: updateOne answers matchedCount and no deletedCount,
\* deleteOne answers deletedCount and no matchedCount.
Undefined == -1
UpdateResult(n) == [matchedCount |-> n, deletedCount |-> Undefined]
DeleteResult(n) == [matchedCount |-> Undefined, deletedCount |-> n]

\* Model.updateOne(query, {$set: set, $unset: unset}) on collection s.  A key
\* of `set` that is Missing (0 for _id) is not part of the update: Mongoose
\* removes keys whose value is undefined before it sends the update.  The
\* server refuses to change _id and to break the unique index.
\* Answers [error, result, store].
updateOne(s, q, set, unset) ==
  LET hit == Matching(s, q) IN
  IF hit = {} THEN [error |-> "", result |-> UpdateResult(0), store |-> s]
  ELSE
    LET i == CHOOSE j \in hit : \A k \in hit : j <= k
        d == s[i]
        d2 == [f \in DOMAIN d |->
                 IF f \in unset THEN Absent(f)
                 ELSE IF f # "_id" /\ set[f] # Absent(f) THEN set[f]
                 ELSE d[f]]
    IN IF set._id # 0 /\ set._id # i
         THEN [error |-> "immutable field _id", result |-> UpdateResult(0), store |-> s]
       ELSE IF d2.name # d.name /\ DuplicateName(s, i, d2.name)
         THEN [error |-> "E11000 duplicate key", result |-> UpdateResult(0), store |-> s]
       ELSE [error |-> "", result |-> UpdateResult(1),
             store |-> [s EXCEPT ![i] = d2]]

\* Model.deleteOne(query)
deleteOne(s, q) ==
  LET hit == Matching(s, q) IN
  IF hit = {} THEN [result |-> DeleteResult(0), store |-> s]
  ELSE LET i == CHOOSE j \in hit : \A k \in hit : j <= k
       IN [result |-> DeleteResult(1),
           store |-> [j \in DOMAIN s \ {i} |-> s[j]]]

\* ------------------------------------------------------ BaseController
\* no filter on the ownership field when reads are public
OwnerFilter_public(u) ==
  IF u # NoUser /\ opts.userField /\ ~opts.allowPublicRead THEN u ELSE "any"
\* a filter on the ownership field whether or not a principal is attached
ReadOwnerFilter_strict(u) ==
  IF opts.userField /\ ~opts.allowPublicRead THEN u ELSE "any"
\* The filter on the ownership field that update, delete and restore add.
OwnerFilter(u) == IF u # NoUser /\ opts.userField THEN u ELSE "any"
\* The filter on the ownership field that get and buildQuery add.
ReadOwnerFilter(u) ==
  IF u # NoUser /\ opts.userField /\ ~opts.allowPublicRead THEN u ELSE "any"
SoftFilter == IF opts.enableSoftDelete THEN "absent" ELSE "any"

\* options.validateCreate / validateUpdate when configured: the validator of
\* the customers service, which requires a name.
validate(data) ==
  IF data.name = NoName
    THEN [valid |-> FALSE, message |-> "Customer name is required"]
    ELSE [valid |-> TRUE, message |-> ""]

\* create that never calls validateCreate
create_noValidate(s, cr, u, body) ==
  LET payload == IF u # NoUser /\ opts.userField
                   THEN [body EXCEPT !.user = u] ELSE body
      id == IF payload._id # 0 THEN payload._id
            ELSE CHOOSE j \in Ids \ cr : \A k \in Ids \ cr : j <= k
      same == [resp |-> NoMeta, store |-> s, used |-> cr]
  IN
  IF id \in DOMAIN s
    THEN [same EXCEPT !.resp = nextError(0, "_id already exists")]
  ELSE IF DuplicateName(s, id, payload.name)
    THEN [same EXCEPT !.resp = nextError(0, "name already exists")]
  ELSE [resp |-> created(id),
        store |-> [j \in DOMAIN s \cup {id} |->
                     IF j = id THEN NewDoc(id, payload) ELSE s[j]],
        used |-> cr \cup {id}]

\* create, with cr the ObjectIds generated or stored so far: answers
\* [resp, store, used]
create(s, cr, u, body) ==
  LET payload == IF u # NoUser /\ opts.userField
                   THEN [body EXCEPT !.user = u] ELSE body
      id == IF payload._id # 0 THEN payload._id
            ELSE CHOOSE j \in Ids \ cr : \A k \in Ids \ cr : j <= k
      same == [resp |-> NoMeta, store |-> s, used |-> cr]
  IN
  IF opts.validate /\ ~validate(payload).valid
    THEN [same EXCEPT !.resp = fail(400, validate(payload).message)]
  ELSE IF id \in DOMAIN s
    THEN [same EXCEPT !.resp = nextError(0, "_id already exists")]
  ELSE IF DuplicateName(s, id, payload.name)
    THEN [same EXCEPT !.resp = nextError(0, "name already exists")]
  ELSE [resp |-> created(id),
        store |-> [j \in DOMAIN s \cup {id} |->
                     IF j = id THEN NewDoc(id, payload) ELSE s[j]],
        used |-> cr \cup {id}]

\* get
get(s, u, id) ==
  IF ~validateObjectId(id) THEN fail(400, "Invalid ID format")
  ELSE
    LET hit == Matching(s, Query(id, ReadOwnerFilter(u), SoftFilter)) IN
    IF hit = {} THEN fail(404, "Document not found")
    ELSE ok("", <<s[id]>>, NoMeta)

\* update without `delete update._id`
update_keepsId(s, u, id, body) ==
  IF ~validateObjectId(id)
    THEN [resp |-> fail(400, "Invalid ID format"), store |-> s]
  ELSE IF opts.validate /\ ~validate(body).valid
    THEN [resp |-> fail(400, validate(body).message), store |-> s]
  ELSE
    LET set == [body EXCEPT !.updatedAt = Now,
                            !.updatedBy = IF u = NoUser THEN Missing ELSE u,
                            !.createdAt = Missing, !.createdBy = Missing]
        r == updateOne(s, Query(id, OwnerFilter(u), SoftFilter), set, {})
    IN IF r.error # ""
         THEN [resp |-> nextError(0, r.error), store |-> s]
       ELSE IF r.result.matchedCount = 0
         THEN [resp |-> fail(404, "Document not found"), store |-> s]
       ELSE [resp |-> ok("updated", <<>>, NoMeta), store |-> r.store]

\* update: answers [resp, store]
update(s, u, id, body) ==
  IF ~validateObjectId(id)
    THEN [resp |-> fail(400, "Invalid ID format"), store |-> s]
  ELSE IF opts.validate /\ ~validate(body).valid
    THEN [resp |-> fail(400, validate(body).message), store |-> s]
  ELSE
    LET set == [body EXCEPT !.updatedAt = Now,
                            !.updatedBy = IF u = NoUser THEN Missing ELSE u,
                            !._id = 0, !.createdAt = Missing, !.createdBy = Missing]
        r == updateOne(s, Query(id, OwnerFilter(u), SoftFilter), set, {})
    IN IF r.error # ""
         THEN [resp |-> nextError(0, r.error), store |-> s]
       ELSE IF r.result.matchedCount = 0
         THEN [resp |-> fail(404, "Document not found"), store |-> s]
       ELSE [resp |-> ok("updated", <<>>, NoMeta), store |-> r.store]

\* delete that removes the document whatever enableSoftDelete says
delete_alwaysHard(s, u, id) ==
  IF ~validateObjectId(id)
    THEN [resp |-> fail(400, "Invalid ID format"), store |-> s]
  ELSE
    LET r == deleteOne(s, Query(id, OwnerFilter(u), "any"))
    IN IF r.result.matchedCount = 0 /\ r.result.deletedCount = 0
         THEN [resp |-> fail(404, "Document not found"), store |-> s]
       ELSE [resp |-> ok("deleted", <<>>, NoMeta), store |-> r.store]

\* delete (soft or hard): answers [resp, store]
delete(s, u, id) ==
  IF ~validateObjectId(id)
    THEN [resp |-> fail(400, "Invalid ID format"), store |-> s]
  ELSE
    LET r == IF opts.enableSoftDelete
               THEN updateOne(s, Query(id, OwnerFilter(u), "absent"),
                              [NoPayload EXCEPT !.deletedAt = Now,
                                 !.deletedBy = IF u = NoUser THEN Missing ELSE u],
                              {})
               ELSE deleteOne(s, Query(id, OwnerFilter(u), "any"))
    IN IF r.result.matchedCount = 0 /\ r.result.deletedCount = 0
         THEN [resp |-> fail(404, "Document not found"),
               store |-> s]
       ELSE [resp |-> ok("deleted", <<>>, NoMeta),
             store |-> r.store]

\* restore whose $unset names deletedBy alone
restore_keepsDeletedAt(s, u, id) ==
  IF ~opts.enableSoftDelete
    THEN [resp |-> fail(400, "Soft delete is not enabled for this resource"), store |-> s]
  ELSE IF ~validateObjectId(id)
    THEN [resp |-> fail(400, "Invalid ID format"), store |-> s]
  ELSE
    LET r == updateOne(s, Query(id, OwnerFilter(u), "present"),
                       [NoPayload EXCEPT !.updatedAt = Now,
                          !.updatedBy = IF u = NoUser THEN Missing ELSE u],
                       {"deletedBy"})
    IN IF r.result.matchedCount = 0
         THEN [resp |-> fail(404, "Deleted document not found"), store |-> s]
       ELSE [resp |-> ok("restored", <<>>, NoMeta), store |-> r.store]

\* restore handler: answers [resp, store]
restore(s, u, id) ==
  IF ~opts.enableSoftDelete
    THEN [resp |-> fail(400,
                        "Soft delete is not enabled for this resource"),
          store |-> s]
  ELSE IF ~validateObjectId(id)
    THEN [resp |-> fail(400, "Invalid ID format"), store |-> s]
  ELSE
    LET r == updateOne(s, Query(id, OwnerFilter(u), "present"),
                       [NoPayload EXCEPT !.updatedAt = Now,
                          !.updatedBy = IF u = NoUser THEN Missing ELSE u],
                       {"deletedAt", "deletedBy"})
    IN IF r.result.matchedCount = 0
         THEN [resp |-> fail(404, "Deleted document not found"),
               store |-> s]
       ELSE [resp |-> ok("restored", <<>>, NoMeta),
             store |-> r.store]

\* createRouter mounts POST /:id/restore only when soft delete is enabled;
\* otherwise the request falls through to notFound of the service.
notFound == fail(404, "Not Found")
restoreRoute(s, u, id) ==
  IF opts.enableSoftDelete THEN restore(s, u, id)
  ELSE [resp |-> notFound, store |-> s]

\* ------------------------------------------------------ pagination
\* A raw query parameter: absent, not a number, or a numeral.
Raw(text, n) == [text |-> text, n |-> n]
AbsentParam == Raw("absent", 0)
\* parseInt(x) || dflt: NaN and 0 are falsy
parseIntOr(raw, dflt) == IF raw.text = "num" /\ raw.n # 0 THEN raw.n ELSE dflt
Max(a, b) == IF a >= b THEN a ELSE b
Min(a, b) == IF a <= b THEN a ELSE b

defaultLimit == 10
maxLimit == 100

buildPagination(rawPage, rawLimit, dfltLimit, mxLimit) ==
  LET page == Max(1, parseIntOr(rawPage, 1))
      limit == Min(parseIntOr(rawLimit, dfltLimit), mxLimit)
  IN [page |-> page, limit |-> limit, skip |-> (page - 1) * limit]

\* Math.ceil(a / b) for a >= 0 and b # 0
Ceil(a, b) == IF b > 0 THEN (a + b - 1) \div b ELSE -(a \div (-b))

formatPaginationResponse(data, pagination, total) ==
  [data |-> data,
   pagination |->
     [page |-> pagination.page, limit |-> pagination.limit, skip |-> pagination.skip,
      total |-> total,
      totalPages |-> Ceil(total, pagination.limit),
      hasNext |-> pagination.page * pagination.limit < total,
      hasPrev |-> pagination.page > 1]]

\* ------------------------------------------------------ list
Lower(c) == CASE c = "A" -> "a" [] c = "O" -> "o" [] OTHER -> c
\* new RegExp(search, 'i'): the search string is the source of the pattern.
\* "(" opens a group that is never closed: the constructor throws.
RegexValid(search) == \A j \in 1..Len(search) : search[j] # "("
\* searchRegex.test(value): letters match themselves in either case, "."
\* matches any character
RegexTest(search, value) ==
  \E k \in 0..(Len(value) - Len(search)) :
     \A j \in 1..Len(search) :
        search[j] = "." \/ Lower(value[k + j]) = Lower(search[j])

\* sort({createdAt: -1}): later dates first; equal dates keep the later
\* document first
DateRank(t) == CASE t = Now -> 2 [] t = Past -> 1 [] OTHER -> 0
Before(a, b) ==
  \/ DateRank(a.createdAt) > DateRank(b.createdAt)
  \/ DateRank(a.createdAt) = DateRank(b.createdAt) /\ a._id > b._id
Sorted(s, ids) ==
  CHOOSE seq \in [1..Cardinality(ids) -> ids] :
    /\ \A i, j \in 1..Cardinality(ids) : i < j => Before(s[seq[i]], s[seq[j]])

\* Model.find(query).sort().skip(skip).limit(limit).lean(): the server
\* refuses a negative skip and reads a negative limit as its magnitude.
find(s, ids, skip, limit) ==
  LET all == Sorted(s, ids)
      n == IF limit < 0 THEN -limit ELSE limit
      docs == [i \in 1..Len(all) |-> s[all[i]]]
  IN SubSeq(docs, skip + 1, Min(skip + n, Len(all)))

list(s, u, q) ==
  LET pagination == buildPagination(q.page, q.limit, defaultLimit, maxLimit)
      deletedAt == IF opts.enableSoftDelete /\ ~q.includeDeleted THEN "absent" ELSE "any"
      scope == Matching(s, Query(0, ReadOwnerFilter(u), deletedAt))
      hit == IF q.search # <<>>
               THEN {i \in scope : RegexTest(q.search, s[i].name)}
               ELSE scope
      total == Cardinality(hit)
  IN IF ~RegexValid(q.search)
       THEN nextError(0, "Invalid regular expression")
     ELSE IF pagination.skip < 0
       THEN nextError(0, "skip must be non-negative")
     ELSE
       LET body == formatPaginationResponse(
                     find(s, hit, pagination.skip, pagination.limit),
                     pagination, total)
       IN ok("", body.data, body.pagination)

\* ------------------------------------------------------ requests
\* The request bodies the clients send.
Bodies ==
  {NoPayload,
   [NoPayload EXCEPT !.name = <<"A", "c">>],
   [NoPayload EXCEPT !.user = "B"],
   [NoPayload EXCEPT !._id = MaxIds, !.name = <<"O", "t">>],
   [NoPayload EXCEPT !.deletedAt = Past],
   [NoPayload EXCEPT !.createdAt = Past, !.updatedBy = "B"],
   [NoPayload EXCEPT !.deletedBy = "B"]}

\* GET /R with no query parameters
NoQuery == [page |-> AbsentParam, limit |-> AbsentParam, includeDeleted |-> FALSE,
            search |-> <<>>]

RawValues ==
  {Raw("absent", 0), Raw("abc", 0)}
    \cup {Raw("num", n) : n \in (-MaxQuery..MaxQuery) \cup {maxLimit + 1}}
\* the parameters the list requests of the CRUD specification use
ListQueries ==
  {NoQuery,
   [NoQuery EXCEPT !.includeDeleted = TRUE],
   [NoQuery EXCEPT !.search = <<"a", "c">>],
   [NoQuery EXCEPT !.search = <<".">>],
   [NoQuery EXCEPT !.search = <<"(">>],
   [NoQuery EXCEPT !.limit = Raw("num", 1)],
   [NoQuery EXCEPT !.limit = Raw("num", 1), !.page = Raw("num", 2)],
   [NoQuery EXCEPT !.limit = Raw("num", -1)]}

\* ------------------------------------------------------ actions
Used == DOMAIN creator

Create(u, body) ==
  /\ body._id # 0 \/ Ids \ Used # {}
  /\ LET r == create(store, Used, u, body) IN
       /\ store' = r.store
       /\ creator' = IF r.resp.status = 201
                       THEN [j \in r.used |-> IF j = r.resp.data[1] THEN u ELSE creator[j]]
                       ELSE creator
  /\ UNCHANGED <<opts, pag, err, svc, auth, hc, flight>>

Get(u, id) ==
  /\ get(store, u, id).status \in {200, 400, 404}
  /\ UNCHANGED vars

List(u, q) ==
  /\ list(store, u, q).status \in {200, 500}
  /\ UNCHANGED vars

Update(u, id, body) ==
  /\ store' = update(store, u, id, body).store
  /\ UNCHANGED <<opts, creator, pag, err, svc, auth, hc, flight>>

Delete(u, id) ==
  /\ store' = delete(store, u, id).store
  /\ UNCHANGED <<opts, creator, pag, err, svc, auth, hc, flight>>

Restore(u, id) ==
  /\ store' = restoreRoute(store, u, id).store
  /\ UNCHANGED <<opts, creator, pag, err, svc, auth, hc, flight>>

\* ------------------------------------------------------ error handler
\* An error on its way to errorHandler: err.status (0: none attached),
\* res.statusCode when the error arrives, err.message ("": none) and NODE_ENV.
ErrStatuses == {0, 400, 404, 409, 503}
ResStatuses == {200, 400, 503}
ErrMessages == {"", "E11000 duplicate key"}
Envs == {"production", "development"}

NoAnswer == [status |-> 0, success |-> TRUE, message |-> ""]
NoErr == [status |-> 0, resStatus |-> 200, message |-> "", env |-> "development",
          done |-> FALSE, out |-> NoAnswer]

\* what errorHandler sends: res.status(status).json({success: false, message})
errorResponse(e) ==
  [status |-> errorHandler(e.status, e.resStatus),
   success |-> FALSE,
   message |-> IF e.message = "" THEN "Internal Server Error" ELSE e.message]

HandleError ==
  /\ ~err.done
  /\ err' = [err EXCEPT !.done = TRUE, !.out = errorResponse(err)]
  /\ UNCHANGED <<opts, store, creator, pag, svc, auth, hc, flight>>

\* ------------------------------------------------------ service framework
\* An Authorization header: its scheme ("none": no header) and its token.
\* jwt.verify accepts "good" (subject A) and "noid" (signed, but without
\* any of sub, _id, id) and throws on "bad" (forged or expired).
Header(scheme, token) == [scheme |-> scheme, token |-> token]
Headers ==
  {Header("none", ""), Header("Basic", "good"), Header("bearer", "good"),
   Header("Bearer", "good"), Header("Bearer", "noid"), Header("Bearer", "bad")}

\* requireAuth: answers 401 itself, or attaches req.user and calls next()
requireAuth(h) ==
  IF h.scheme # "Bearer"
    THEN [status |-> 401, message |-> "Missing Bearer token", next |-> FALSE,
          user |-> NoUser]
  ELSE IF h.token = "bad"
    THEN [status |-> 401, message |-> "Invalid or expired token", next |-> FALSE,
          user |-> NoUser]
  ELSE [status |-> 0, message |-> "", next |-> TRUE,
        user |-> IF h.token = "good" THEN "A" ELSE Missing]

NoExit == -1            \* the process is alive
GraceSeconds == 10      \* setTimeout(..., 10000)
NoRequest == [header |-> Header("none", ""), status |-> 0, handled |-> FALSE,
              user |-> NoUser]

\* One service process.  requiresMongo, requiresAuth: the options of the
\* service; routerAuth: options.requireAuth of its router; uri: getMongoUri()
\* finds a connection string; pc: new, connecting (start awaits
\* connectMongo), running, exited; guarded: requireAuth is mounted before the
\* router; handlers: the SIGTERM / SIGINT handlers are registered; listening:
\* the server accepts connections; closeCbs: callbacks of server.close
\* waiting for the 'close' event; timers: deadlines of the pending timeouts;
\* clock: seconds since the first signal; last: the last request served.
NoSvc ==
  [requiresMongo |-> TRUE, requiresAuth |-> TRUE, routerAuth |-> "undefined",
   uri |-> TRUE, pc |-> "new", connected |-> FALSE, failed |-> FALSE,
   guarded |-> FALSE, handlers |-> FALSE, listening |-> FALSE, listened |-> FALSE,
   closeCbs |-> 0, timers |-> {}, clock |-> 0, signals |-> 0, inflight |-> 0,
   exitCode |-> NoExit, last |-> NoRequest]

exit(s, code) == [s EXCEPT !.pc = "exited", !.exitCode = code, !.listening = FALSE]

addRoutes(s) ==
  [s EXCEPT !.guarded = (s.routerAuth # "false" /\ s.requiresAuth)]

setupGracefulShutdown(s) == [s EXCEPT !.handlers = TRUE]

listen(s) == [s EXCEPT !.pc = "running", !.listening = TRUE, !.listened = TRUE]

\* start, after the connection: routes, handlers, listen
startRest(s) == listen(setupGracefulShutdown(addRoutes(s)))

\* start, up to its await
start(s) ==
  IF s.requiresMongo
    THEN IF ~s.uri THEN exit([s EXCEPT !.failed = TRUE], 1)
         ELSE [s EXCEPT !.pc = "connecting"]
    ELSE startRest(s)

\* shutdown whose timeout is never armed
shutdown_noTimer(s) ==
  IF s.listened
    THEN [s EXCEPT !.listening = FALSE, !.closeCbs = @ + 1, !.signals = @ + 1]
    ELSE exit(s, 0)

\* shutdown(signal): server.close(callback) and the 10 s timeout
shutdown(s) ==
  IF s.listened
    THEN [s EXCEPT !.listening = FALSE, !.closeCbs = @ + 1,
                   !.timers = @ \cup {s.clock + GraceSeconds}, !.signals = @ + 1]
    ELSE exit(s, 0)

svcOther == <<opts, store, creator, pag, err, auth, hc, flight>>

Start ==
  /\ svc.pc = "new"
  /\ svc' = start(svc)
  /\ UNCHANGED svcOther

\* connectMongo resolves
ConnectOk ==
  /\ svc.pc = "connecting"
  /\ svc' = startRest([svc EXCEPT !.connected = TRUE])
  /\ UNCHANGED svcOther

\* connectMongo without `process.exit(1)` in the catch of start
ConnectFail_goesOn ==
  /\ svc.pc = "connecting"
  /\ svc' = startRest([svc EXCEPT !.failed = TRUE])
  /\ UNCHANGED svcOther

\* connectMongo rejects: the catch of start exits
ConnectFail ==
  /\ svc.pc = "connecting"
  /\ svc' = exit([svc EXCEPT !.failed = TRUE], 1)
  /\ UNCHANGED svcOther

\* A request for the router arrives on a new connection.
Request(h) ==
  /\ svc.pc = "running" /\ svc.listening /\ svc.inflight < MaxInflight
  /\ LET a == IF svc.guarded THEN requireAuth(h)
               ELSE [status |-> 0, message |-> "", next |-> TRUE, user |-> NoUser]
     IN svc' = [svc EXCEPT
                  !.last = [header |-> h, status |-> a.status, handled |-> a.next,
                            user |-> a.user],
                  !.inflight = IF a.next THEN @ + 1 ELSE @]
  /\ UNCHANGED svcOther

\* A request in flight is answered and its connection ends.
Finish ==
  /\ svc.pc = "running" /\ svc.inflight > 0
  /\ svc' = [svc EXCEPT !.inflight = @ - 1]
  /\ UNCHANGED svcOther

Signal ==
  /\ svc.pc = "running" /\ svc.handlers /\ svc.signals < MaxSignals
  /\ svc' = shutdown(svc)
  /\ UNCHANGED svcOther

\* 'close' is emitted once the server is closed and no connection is left:
\* the callback of server.close exits.
Closed ==
  /\ svc.pc = "running" /\ svc.closeCbs > 0 /\ svc.inflight = 0
  /\ svc' = exit(svc, 0)
  /\ UNCHANGED svcOther

\* A timeout is due; the 'close' callback, queued with nextTick, runs before
\* any timer.
Timeout ==
  /\ svc.pc = "running"
  /\ \E d \in svc.timers : d <= svc.clock
  /\ ~(svc.closeCbs > 0 /\ svc.inflight = 0)
  /\ svc' = exit(svc, 1)
  /\ UNCHANGED svcOther

\* A second passes (counted from the first signal on).
Tick ==
  /\ svc.pc = "running" /\ svc.signals > 0
  /\ \A d \in svc.timers : svc.clock < d
  /\ svc.clock < GraceSeconds
  /\ svc' = [svc EXCEPT !.clock = @ + 1]
  /\ UNCHANGED svcOther

\* ------------------------------------------------------ auth service
\* E-mail addresses as the clients send them: absent, without "@", and three
\* well-formed ones, two of which differ in case only.
NoEmail == <<>>
Emails ==
  {NoEmail, <<"a", "c">>, <<"A", "@", "c", ".", "o">>, <<"a", "@", "c", ".", "o">>,
   <<"o", "@", "c", ".", "o">>}

\* email.toLowerCase()
toLowerCase(e) == [k \in 1..Len(e) |-> Lower(e[k])]

\* /^[^\s@]+@[^\s@]+\.[^\s@]+$/.test(email)
emailRegex(e) ==
  \E i, j \in 1..Len(e) :
    /\ 1 < i /\ i + 1 < j /\ j < Len(e)
    /\ e[i] = "@" /\ e[j] = "."
    /\ \A k \in 1..Len(e) : k # i => e[k] \notin {"@", " "}

MinPassword == 6
\* A register payload: the e-mail, the length of the password (0: absent)
\* and whether firstName and lastName are both given.
RegBody(email, password, names) ==
  [email |-> email, password |-> password, names |-> names]
RegBodies ==
  {RegBody(e, MinPassword, TRUE) : e \in Emails}
    \cup {RegBody(<<"A", "@", "c", ".", "o">>, l, n) :
            l \in {0, MinPassword - 1, MinPassword}, n \in BOOLEAN}

Answer(status, message) == [status |-> status, message |-> message]
Pending == Answer(0, "")

\* register up to `await User.findOne(...)`: the validations, then the
\* look-up of the lower-cased e-mail.  Pending: goes on to create.
registerFind_noLookup(users, body) ==
  IF body.email = NoEmail \/ body.password = 0
    THEN Answer(400, "Email and password are required")
  ELSE IF ~body.names
    THEN Answer(400, "First name and last name are required")
  ELSE IF body.password < MinPassword
    THEN Answer(400, "Password must be at least 6 characters long")
  ELSE IF ~emailRegex(body.email)
    THEN Answer(400, "Invalid email format")
  ELSE Pending

registerFind(users, body) ==
  IF body.email = NoEmail \/ body.password = 0
    THEN Answer(400, "Email and password are required")
  ELSE IF ~body.names
    THEN Answer(400, "First name and last name are required")
  ELSE IF body.password < MinPassword
    THEN Answer(400, "Password must be at least 6 characters long")
  ELSE IF ~emailRegex(body.email)
    THEN Answer(400, "Invalid email format")
  ELSE IF \E k \in 1..Len(users) : users[k] = toLowerCase(body.email)
    THEN Answer(409, "User with this email already exists")
  ELSE Pending

\* register from `User.create(userData)` on: the unique index on email
\* refuses a second document with the same key, and the catch answers 500.
\* Answers [answer, users].
registerCreate(users, body) ==
  IF \E k \in 1..Len(users) : users[k] = toLowerCase(body.email)
    THEN [answer |-> Answer(500, "Internal server error during registration"),
          users |-> users]
    ELSE [answer |-> Answer(201, "User registered successfully"),
          users |-> Append(users, toLowerCase(body.email))]

\* users: the e-mails of the stored users, in the order of their creation;
\* regs: the register requests (idle: not yet received; found: past the
\* look-up, before User.create; done: answered).
NoReg == [pc |-> "idle", body |-> RegBody(NoEmail, 0, FALSE), answer |-> Pending]
NoAuth == [users |-> <<>>, regs |-> [i \in 1..MaxRegs |-> NoReg]]

authOther == <<opts, store, creator, pag, err, svc, hc, flight>>

RegisterFind(i, body) ==
  /\ auth.regs[i].pc = "idle"
  /\ \A k \in 1..(i - 1) : auth.regs[k].pc # "idle"
  /\ LET a == registerFind(auth.users, body) IN
       auth' = [auth EXCEPT !.regs[i] =
                  [pc |-> IF a = Pending THEN "found" ELSE "done",
                   body |-> body, answer |-> a]]
  /\ UNCHANGED authOther

RegisterCreate(i) ==
  /\ auth.regs[i].pc = "found"
  /\ LET r == registerCreate(auth.users, auth.regs[i].body) IN
       auth' = [auth EXCEPT !.users = r.users,
                           !.regs[i] = [@ EXCEPT !.pc = "done", !.answer = r.answer]]
  /\ UNCHANGED authOther

\* ------------------------------------------------------ requests in flight
\* Every database call of a handler is awaited: between the call and its
\* answer the event loop serves other requests.  update and delete make one
\* call (updateOne / deleteOne, atomic on the document); list makes two,
\* countDocuments and then find.

\* the documents the query of list selects
listScope(s, u, q) ==
  LET deletedAt == IF opts.enableSoftDelete /\ ~q.includeDeleted THEN "absent" ELSE "any"
      scope == Matching(s, Query(0, ReadOwnerFilter(u), deletedAt))
  IN IF q.search # <<>>
       THEN {i \in scope : RegexTest(q.search, s[i].name)}
       ELSE scope

\* await this.Model.countDocuments(query)
listCount(s, u, q) == Cardinality(listScope(s, u, q))

\* await queryBuilder.lean(), and the answer of list
listFind(s, u, q, total) ==
  LET pagination == buildPagination(q.page, q.limit, defaultLimit, maxLimit) IN
  IF pagination.skip < 0
    THEN nextError(0, "skip must be non-negative")
  ELSE
    LET body == formatPaginationResponse(
                  find(s, listScope(s, u, q), pagination.skip, pagination.limit),
                  pagination, total)
    IN ok("", body.data, body.pagination)

\* A request in flight: op and its parameters; pc (idle; sent: the first
\* database call is under way; counted: list has its total; done: answered);
\* total, status and rows of the answer.  For the record: matched (the
\* request matched its record when it was received), raced (another request
\* of the same kind on the same record was in flight with it), hit (its
\* database call matched a record) and seen (the documents that find
\* selected).
NoFlight ==
  [op |-> "none", pc |-> "idle", u |-> NoUser, id |-> 0, body |-> NoPayload,
   q |-> NoQuery, total |-> 0, status |-> 0, rows |-> 0,
   matched |-> FALSE, raced |-> FALSE, hit |-> FALSE, seen |-> {}]
NoFlights == [i \in 1..MaxFlight |-> NoFlight]

flightOther == <<opts, creator, pag, err, svc, auth, hc>>

\* the requests the clients send while others are in flight
FlightBodies ==
  {[NoPayload EXCEPT !.name = <<"A", "c">>],
   [NoPayload EXCEPT !.name = <<"O", "t">>],
   [NoPayload EXCEPT !.deletedAt = Past]}
FlightQueries ==
  {NoQuery, [NoQuery EXCEPT !.limit = Raw("num", 1), !.page = Raw("num", 2)]}

FreeSlot(i) ==
  /\ flight[i].pc = "idle"
  /\ \A k \in 1..(i - 1) : flight[k].pc # "idle"

\* slot k holds a request of kind op on record id whose database call is
\* still to come
Racing(k, op, id) ==
  flight[k].op = op /\ flight[k].id = id /\ flight[k].pc = "sent"

\* a request is received and runs up to its first await
Begin(i, req) ==
  /\ FreeSlot(i)
  /\ LET raced == \E k \in 1..MaxFlight : Racing(k, req.op, req.id) IN
       flight' = [k \in 1..MaxFlight |->
                    IF k = i THEN [req EXCEPT !.pc = "sent", !.raced = raced]
                    ELSE IF Racing(k, req.op, req.id) THEN [flight[k] EXCEPT !.raced = TRUE]
                    ELSE flight[k]]
  /\ UNCHANGED <<store, flightOther>>

BeginUpdate(i, u, id, body) ==
  Begin(i, [NoFlight EXCEPT !.op = "update", !.u = u, !.id = id, !.body = body,
              !.matched = Matching(store, Query(id, OwnerFilter(u), SoftFilter)) # {}])

BeginDelete(i, u, id) ==
  Begin(i, [NoFlight EXCEPT !.op = "delete", !.u = u, !.id = id,
              !.matched = Matching(store, Query(id, OwnerFilter(u), SoftFilter)) # {}])

BeginList(i, u, q) ==
  Begin(i, [NoFlight EXCEPT !.op = "list", !.u = u, !.q = q])

\* Model.updateOne of update is applied and update answers
ApplyUpdate(i) ==
  /\ flight[i].op = "update" /\ flight[i].pc = "sent"
  /\ LET r == update(store, flight[i].u, flight[i].id, flight[i].body) IN
       /\ store' = r.store
       /\ flight' = [flight EXCEPT ![i] =
                       [@ EXCEPT !.pc = "done", !.status = r.resp.status,
                                 !.hit = (r.resp.status = 200)]]
  /\ UNCHANGED flightOther

\* Model.updateOne / deleteOne of delete is applied and delete answers
ApplyDelete(i) ==
  /\ flight[i].op = "delete" /\ flight[i].pc = "sent"
  /\ LET r == delete(store, flight[i].u, flight[i].id) IN
       /\ store' = r.store
       /\ flight' = [flight EXCEPT ![i] =
                       [@ EXCEPT !.pc = "done", !.status = r.resp.status,
                                 !.hit = (r.store # store)]]
  /\ UNCHANGED flightOther

\* countDocuments of list answers
Count(i) ==
  /\ flight[i].op = "list" /\ flight[i].pc = "sent"
  /\ flight' = [flight EXCEPT ![i] =
                  [@ EXCEPT !.pc = "counted",
                     !.total = listCount(store, flight[i].u, flight[i].q)]]
  /\ UNCHANGED <<store, flightOther>>

\* find of list answers and list answers
Find(i) ==
  /\ flight[i].op = "list" /\ flight[i].pc = "counted"
  /\ LET r == listFind(store, flight[i].u, flight[i].q, flight[i].total) IN
       flight' = [flight EXCEPT ![i] =
                    [@ EXCEPT !.pc = "done", !.status = r.status,
                       !.rows = Len(r.data),
                       !.seen = listScope(store, flight[i].u, flight[i].q)]]
  /\ UNCHANGED <<store, flightOther>>

\* the answer is sent
Respond(i) ==
  /\ flight[i].pc = "done"
  /\ flight' = [flight EXCEPT ![i] = NoFlight]
  /\ UNCHANGED <<store, flightOther>>

\* a create served while other requests are in flight
FlightCreate(u, body) ==
  /\ body._id # 0 \/ Ids \ Used # {}
  /\ LET r == create(store, Used, u, body) IN
       /\ store' = r.store
       /\ creator' = IF r.resp.status = 201
                       THEN [j \in r.used |-> IF j = r.resp.data[1] THEN u ELSE creator[j]]
                       ELSE creator
  /\ UNCHANGED <<opts, pag, err, svc, auth, hc, flight>>

\* ------------------------------------------------------ gateway health
\* GET /health/services: one check per configured service, all started
\* together.  A check: pc (idle, fetching: awaits fetch; reading: awaits
\* response.json(); done), timer (the abort timeout is armed), status, at
\* (the second the check completed in) and cause (what ended it).
HealthTimeoutSeconds == 5
Services == 1..MaxChecks
NoCheck == [pc |-> "idle", timer |-> FALSE, status |-> "", at |-> 0, cause |-> ""]
NoHc == [clock |-> 0, checks |-> [s \in Services |-> NoCheck]]

hcOther == <<opts, store, creator, pag, err, svc, auth, flight>>

\* the result object a check returns
checkResult(c, status, cause, now) ==
  [c EXCEPT !.pc = "done", !.status = status, !.cause = cause, !.at = now]

\* Object.entries(services).map(...): every check arms its timeout and
\* calls fetch
HcStart ==
  /\ \A s \in Services : hc.checks[s].pc = "idle"
  /\ hc' = [hc EXCEPT !.checks =
               [s \in Services |-> [NoCheck EXCEPT !.pc = "fetching", !.timer = TRUE]]]
  /\ UNCHANGED hcOther

\* fetch resolves with the status line and the headers: clearTimeout, then
\* response.ok decides
HcResponse(s, isOk) ==
  /\ hc.checks[s].pc = "fetching"
  /\ hc' = [hc EXCEPT !.checks[s] =
               IF isOk THEN [@ EXCEPT !.pc = "reading", !.timer = FALSE]
               ELSE checkResult([@ EXCEPT !.timer = FALSE], "unhealthy", "http", hc.clock)]
  /\ UNCHANGED hcOther

\* response.json() resolves, or rejects on a body that is not JSON
HcBody(s, isJson) ==
  /\ hc.checks[s].pc = "reading"
  /\ hc' = [hc EXCEPT !.checks[s] =
               IF isJson THEN checkResult(@, "healthy", "ok", hc.clock)
               ELSE checkResult(@, "unhealthy", "json", hc.clock)]
  /\ UNCHANGED hcOther

\* fetch rejects: the service cannot be reached
HcNetworkError(s) ==
  /\ hc.checks[s].pc = "fetching"
  /\ hc' = [hc EXCEPT !.checks[s] = checkResult(@, "unhealthy", "network", hc.clock)]
  /\ UNCHANGED hcOther

\* the timeout fires: controller.abort() rejects the fetch with an AbortError
HcAbort(s) ==
  /\ hc.checks[s].pc = "fetching" /\ hc.checks[s].timer
  /\ hc.clock >= HealthTimeoutSeconds
  /\ hc' = [hc EXCEPT !.checks[s] =
               checkResult([@ EXCEPT !.timer = FALSE], "timeout", "abort", hc.clock)]
  /\ UNCHANGED hcOther

\* a second passes; a due timeout fires before time moves on
HcTick ==
  /\ \E s \in Services : hc.checks[s].pc \in {"fetching", "reading"}
  /\ \A s \in Services :
       (hc.checks[s].pc = "fetching" /\ hc.checks[s].timer) =>
         hc.clock < HealthTimeoutSeconds
  /\ hc.clock < MaxWait
  /\ hc' = [hc EXCEPT !.clock = @ + 1]
  /\ UNCHANGED hcOther

\* ------------------------------------------------------ specification
Configs ==
  {o \in [userField : BOOLEAN, allowPublicRead : BOOLEAN, enableSoftDelete : BOOLEAN,
          uniqueName : BOOLEAN, validate : BOOLEAN] :
     o.allowPublicRead => o.userField}

NoPag == [page |-> AbsentParam, limit |-> AbsentParam, done |-> FALSE,
          out |-> [page |-> 0, limit |-> 0, skip |-> 0]]

InitWith(configs) ==
  /\ opts \in configs
  /\ store = [i \in {} |-> NoPayload]
  /\ creator = [i \in {} |-> NoUser]
  /\ pag = NoPag
  /\ err = NoErr
  /\ svc = NoSvc
  /\ auth = NoAuth
  /\ hc = NoHc
  /\ flight = NoFlights

\* Services mount the router behind requireAuth (the default of the service
\* framework): every request carries a principal.
Init ==
  InitWith({o \in Configs : o.userField /\ ~o.allowPublicRead /\ ~o.uniqueName
                              /\ ~o.validate})

Next ==
  \/ \E u \in Users, body \in Bodies : Create(u, body)
  \/ \E u \in Users, id \in ReqIds : Get(u, id)
  \/ \E u \in Users, q \in ListQueries : List(u, q)
  \/ \E u \in Users, id \in ReqIds, body \in Bodies : Update(u, id, body)
  \/ \E u \in Users, id \in ReqIds : Delete(u, id)
  \/ \E u \in Users, id \in ReqIds : Restore(u, id)

Spec == Init /\ [][Next]_vars

\* The same service with an unique index on name in the schema.
InitUnique ==
  InitWith({o \in Configs : o.userField /\ ~o.allowPublicRead /\ ~o.enableSoftDelete
                              /\ o.uniqueName /\ ~o.validate})
SpecUnique == InitUnique /\ [][Next]_vars

\* The same service with validateCreate and validateUpdate configured.
InitValid ==
  InitWith({o \in Configs : o.userField /\ ~o.allowPublicRead /\ ~o.uniqueName
                              /\ o.validate})
SpecValid == InitValid /\ [][Next]_vars

\* The pagination helper alone, on every raw value of ?page= and ?limit=.
InitPage ==
  /\ opts \in {o \in Configs : o.userField /\ ~o.allowPublicRead /\ ~o.enableSoftDelete
                                 /\ ~o.uniqueName /\ ~o.validate}
  /\ store = [i \in {} |-> NoPayload]
  /\ creator = [i \in {} |-> NoUser]
  /\ pag \in {[NoPag EXCEPT !.page = p, !.limit = l] : p \in RawValues, l \in RawValues}
  /\ err = NoErr
  /\ svc = NoSvc
  /\ auth = NoAuth
  /\ hc = NoHc
  /\ flight = NoFlights

BuildPagination ==
  /\ ~pag.done
  /\ pag' = [pag EXCEPT !.done = TRUE,
               !.out = buildPagination(pag.page, pag.limit, defaultLimit, maxLimit)]
  /\ UNCHANGED <<opts, store, creator, err, svc, auth, hc, flight>>

NextPage == BuildPagination
SpecPage == InitPage /\ [][NextPage]_vars

\* The error handler alone, on every error that can reach it.
InitError ==
  /\ opts \in {o \in Configs : o.userField /\ ~o.allowPublicRead /\ ~o.enableSoftDelete
                                 /\ ~o.uniqueName /\ ~o.validate}
  /\ store = [i \in {} |-> NoPayload]
  /\ creator = [i \in {} |-> NoUser]
  /\ pag = NoPag
  /\ err \in {[NoErr EXCEPT !.status = s, !.resStatus = c, !.message = m, !.env = e] :
                s \in ErrStatuses, c \in ResStatuses, m \in ErrMessages, e \in Envs}
  /\ svc = NoSvc
  /\ auth = NoAuth
  /\ hc = NoHc
  /\ flight = NoFlights
NextError == HandleError
SpecError == InitError /\ [][NextError]_vars

\* One service process, from construction to exit.
InitService ==
  /\ opts \in {o \in Configs : o.userField /\ ~o.allowPublicRead /\ ~o.enableSoftDelete
                                 /\ ~o.uniqueName /\ ~o.validate}
  /\ store = [i \in {} |-> NoPayload]
  /\ creator = [i \in {} |-> NoUser]
  /\ pag = NoPag
  /\ err = NoErr
  /\ svc \in {[NoSvc EXCEPT !.requiresMongo = m, !.requiresAuth = a, !.routerAuth = r,
                             !.uri = u] :
                m \in BOOLEAN, a \in BOOLEAN, r \in {"undefined", "true", "false"},
                u \in BOOLEAN}
  /\ auth = NoAuth
  /\ hc = NoHc
  /\ flight = NoFlights

NextService ==
  \/ Start
  \/ ConnectOk
  \/ ConnectFail
  \/ \E h \in Headers : Request(h)
  \/ Finish
  \/ Signal
  \/ Closed
  \/ Timeout
  \/ Tick

SpecService == InitService /\ [][NextService]_vars

\* The auth service: register requests, served concurrently.
InitAuth ==
  InitWith({o \in Configs : o.userField /\ ~o.allowPublicRead /\ ~o.enableSoftDelete
                              /\ ~o.uniqueName /\ ~o.validate})
NextAuth ==
  \/ \E i \in 1..MaxRegs, body \in RegBodies : RegisterFind(i, body)
  \/ \E i \in 1..MaxRegs : RegisterCreate(i)
SpecAuth == InitAuth /\ [][NextAuth]_vars

\* A resource with an ownership field and public read.
InitPublic ==
  InitWith({o \in Configs : o.userField /\ o.allowPublicRead /\ ~o.uniqueName
                              /\ ~o.validate})
SpecPublic == InitPublic /\ [][Next]_vars

\* A router mounted with requireAuth: false (addRoutes): requests reach the
\* controller with the principal A or with none.
Callers == {"A", NoUser}
NextAnon ==
  \/ \E u \in Callers, body \in Bodies : Create(u, body)
  \/ \E u \in Callers, id \in ReqIds : Get(u, id)
  \/ \E u \in Callers, q \in ListQueries : List(u, q)
  \/ \E u \in Callers, id \in ReqIds, body \in Bodies : Update(u, id, body)
  \/ \E u \in Callers, id \in ReqIds : Delete(u, id)
  \/ \E u \in Callers, id \in ReqIds : Restore(u, id)
SpecAnon == Init /\ [][NextAnon]_vars

\* A soft-delete-enabled resource under concurrent requests of one owner.
InitFlight ==
  InitWith({o \in Configs : o.userField /\ ~o.allowPublicRead /\ o.enableSoftDelete
                              /\ ~o.uniqueName /\ ~o.validate})
NextFlight ==
  \/ \E body \in FlightBodies : FlightCreate("A", body)
  \/ \E i \in 1..MaxFlight, id \in Ids, body \in FlightBodies : BeginUpdate(i, "A", id, body)
  \/ \E i \in 1..MaxFlight, id \in Ids : BeginDelete(i, "A", id)
  \/ \E i \in 1..MaxFlight, q \in FlightQueries : BeginList(i, "A", q)
  \/ \E i \in 1..MaxFlight : ApplyUpdate(i)
  \/ \E i \in 1..MaxFlight : ApplyDelete(i)
  \/ \E i \in 1..MaxFlight : Count(i)
  \/ \E i \in 1..MaxFlight : Find(i)
  \/ \E i \in 1..MaxFlight : Respond(i)
SpecFlight == InitFlight /\ [][NextFlight]_vars

\* The gateway: one GET /health/services.
InitHealth ==
  InitWith({o \in Configs : o.userField /\ ~o.allowPublicRead /\ ~o.enableSoftDelete
                              /\ ~o.uniqueName /\ ~o.validate})
NextHealth ==
  \/ HcStart
  \/ \E s \in Services, isOk \in BOOLEAN : HcResponse(s, isOk)
  \/ \E s \in Services, isJson \in BOOLEAN : HcBody(s, isJson)
  \/ \E s \in Services : HcNetworkError(s)
  \/ \E s \in Services : HcAbort(s)
  \/ HcTick
SpecHealth == InitHealth /\ [][NextHealth]_vars

\* start runs to its end, time passes, due timers and queued callbacks run;
\* nothing makes a request in flight end, or a signal arrive.
FairService ==
  /\ SpecService
  /\ WF_vars(Start) /\ WF_vars(ConnectOk \/ ConnectFail)
  /\ WF_vars(Closed) /\ WF_vars(Timeout) /\ WF_vars(Tick)

\* ====================================================== claims
DocFields ==
  {"_id", "user", "name", "createdAt", "createdBy", "updatedAt", "updatedBy",
   "deletedAt", "deletedBy"}
Returned(resp) == {resp.data[k]._id : k \in 1..Len(resp.data)}
CanCreate(body) == body._id # 0 \/ Ids \ Used # {}

\* C1 (as claimed): with an ownership field and public read disabled, a
\* record created by principal A is never returned by get or list issued by
\* another principal B, and update and delete issued by B are answered 404
\* and leave the record unchanged.
C1_OwnershipIsolation ==
  (opts.userField /\ ~opts.allowPublicRead) =>
    \A id \in DOMAIN store, b \in Users :
      b # creator[id] =>
        /\ get(store, b, id).status = 404
        /\ \A q \in ListQueries : id \notin Returned(list(store, b, q))
        /\ \A body \in Bodies :
             /\ update(store, b, id, body).resp.status = 404
             /\ update(store, b, id, body).store = store
        /\ delete(store, b, id).resp.status = 404
        /\ delete(store, b, id).store = store

\* C2 (as claimed): delete on a stored record is answered 200 and a second
\* delete of the same identifier right after it 404, with hard and with soft
\* delete; delete on an identifier that matches no record is answered 404.
C2_DeleteTwice ==
  \A u \in Users, id \in Ids :
    LET first == delete(store, u, id)
        second == delete(first.store, u, id)
    IN IF Matching(store, Query(id, u, SoftFilter)) # {}
         THEN first.resp.status = 200 /\ second.resp.status = 404
         ELSE first.resp.status = 404

\* C3 (as claimed): a create that violates a uniqueness constraint is
\* answered 409 with a message naming the offending field, and creates no
\* record.
C3_DuplicateConflict ==
  \A u \in Users, body \in Bodies :
    LET r == create(store, Used, u, body)
        dupId == body._id \in DOMAIN store
        dupName == opts.uniqueName /\ \E i \in DOMAIN store : store[i].name = body.name
    IN (CanCreate(body) /\ (dupId \/ dupName)) =>
         /\ r.resp.status = 409
         /\ r.resp.message = (IF dupId THEN "_id already exists" ELSE "name already exists")
         /\ r.store = store

\* C4 (as claimed): after a create by principal P answered 201, a get of the
\* returned identifier by P returns the record, and its ownership field is P
\* whatever the payload carried.
C4_CreateThenGet ==
  opts.userField =>
    \A u \in Users, body \in Bodies :
      LET r == create(store, Used, u, body) IN
      (CanCreate(body) /\ r.resp.status = 201) =>
        LET g == get(r.store, u, r.resp.data[1]) IN
        /\ g.status = 200
        /\ g.data[1]._id = r.resp.data[1]
        /\ g.data[1].user = u

\* C5 (as claimed): a soft-deleted record is not returned by get nor by list
\* without includeDeleted, and update and delete on it are answered 404 and
\* do not change it.
C5_SoftDeletedHidden ==
  opts.enableSoftDelete =>
    \A id \in DOMAIN store, u \in Users :
      store[id].deletedAt # Missing =>
        /\ get(store, u, id).status = 404
        /\ \A q \in ListQueries :
             ~q.includeDeleted => id \notin Returned(list(store, u, q))
        /\ \A body \in Bodies :
             /\ update(store, u, id, body).resp.status = 404
             /\ update(store, u, id, body).store = store
        /\ delete(store, u, id).resp.status = 404
        /\ delete(store, u, id).store = store

\* C6 (as claimed): for every raw page and limit, buildPagination returns
\* page >= 1, 1 <= limit <= maxLimit and skip = (page - 1) * limit.
C6_PaginationClamped ==
  pag.done =>
    /\ pag.out.page >= 1
    /\ 1 <= pag.out.limit /\ pag.out.limit <= maxLimit
    /\ pag.out.skip = (pag.out.page - 1) * pag.out.limit

\* C7 (as claimed): a list answered with page p and limit l holds at most l
\* records, totalPages is ceil(total / l), hasPrev is p > 1 and hasNext is
\* p * l < total.
C7_ListPage ==
  \A u \in Users, q \in ListQueries :
    LET r == list(store, u, q)
        p == r.meta.page
        l == r.meta.limit
    IN r.status = 200 =>
         /\ Len(r.data) <= l
         /\ r.meta.totalPages * l >= r.meta.total
         /\ (r.meta.totalPages - 1) * l < r.meta.total
         /\ r.meta.hasPrev = (p > 1)
         /\ r.meta.hasNext = (p * l < r.meta.total)

\* C8 (as claimed): POST /R/:id/restore on a resource whose soft delete is
\* disabled is answered 400.
C8_RestoreDisabled ==
  ~opts.enableSoftDelete =>
    \A u \in Users, id \in ReqIds : restoreRoute(store, u, id).resp.status = 400

\* A delete by u1 that soft-deletes record id, then a restore by u2 that
\* matches it.
RoundTrip(id, u1, u2) ==
  LET d == delete(store, u1, id)
      r == restoreRoute(d.store, u2, id)
  IN [happens |-> /\ opts.enableSoftDelete
                  /\ d.resp.status = 200 /\ d.store # store
                  /\ r.resp.status = 200 /\ r.store # d.store,
      after |-> r.store]

\* C9 (as claimed): a successful soft delete followed by a successful restore
\* leaves every field of the record as before the delete, except updatedAt.
C9_RoundTripExceptUpdatedAt ==
  \A id \in DOMAIN store, u1 \in Users, u2 \in Users :
    RoundTrip(id, u1, u2).happens =>
      \A f \in DocFields \ {"updatedAt"} :
        RoundTrip(id, u1, u2).after[id][f] = store[id][f]

\* C9 (amended): a successful soft delete followed by a successful restore
\* leaves every field of the record as before the delete, except updatedAt
\* and updatedBy, which restore stamps, and deletedBy, which restore clears.
C9_RoundTrip ==
  \A id \in DOMAIN store, u1 \in Users, u2 \in Users :
    RoundTrip(id, u1, u2).happens =>
      LET after == RoundTrip(id, u1, u2).after[id] IN
      /\ \A f \in DocFields \ {"updatedAt", "updatedBy", "deletedBy"} :
           after[f] = store[id][f]
      /\ after.updatedAt = Now /\ after.updatedBy = u2
      /\ after.deletedBy = Missing

\* C9 witness: a stored record carrying a name, never updated, whose delete
\* and restore both succeed.
C9_RoundTripHappens ==
  \E id \in DOMAIN store, u \in Users :
    /\ RoundTrip(id, u, u).happens
    /\ store[id].name # NoName
    /\ store[id].updatedBy = Missing

\* The record id is one an update issued by u matches.
UpdateMatches(id, u) ==
  /\ id \in DOMAIN store
  /\ opts.userField => store[id].user = u
  /\ opts.enableSoftDelete => store[id].deletedAt = Missing

\* C10 (as claimed): an update that matches the record succeeds, the record
\* keeps its identifier, and every payload field other than _id is applied.
C10_UpdateAppliesPayload ==
  \A id \in Ids, u \in Users, body \in Bodies :
    UpdateMatches(id, u) =>
      LET r == update(store, u, id, body) IN
      /\ r.resp.status = 200
      /\ id \in DOMAIN r.store /\ r.store[id]._id = id
      /\ \A f \in PayloadFields \ {"_id"} : Has(body, f) => r.store[id][f] = body[f]

\* C10 (amended): an update that matches the record succeeds, the record
\* keeps its identifier, and the other payload fields are applied, except
\* createdAt and createdBy, which are stripped like _id, and updatedAt and
\* updatedBy, which the controller overwrites with its own stamp.
C10_UpdateKeepsId ==
  \A id \in Ids, u \in Users, body \in Bodies :
    UpdateMatches(id, u) =>
      LET r == update(store, u, id, body) IN
      /\ r.resp.status = 200
      /\ DOMAIN r.store = DOMAIN store
      /\ r.store[id]._id = id
      /\ \A f \in {"user", "name", "deletedAt", "deletedBy"} :
           Has(body, f) => r.store[id][f] = body[f]
      /\ r.store[id].createdAt = store[id].createdAt
      /\ r.store[id].createdBy = store[id].createdBy
      /\ r.store[id].updatedAt = Now /\ r.store[id].updatedBy = u

\* C10 witness: a matching update whose payload carries another _id and a
\* new name.
C10_ForgedIdUpdate ==
  \E id \in Ids, u \in Users, body \in Bodies :
    /\ UpdateMatches(id, u)
    /\ body._id # 0 /\ body._id # id
    /\ body.name # NoName /\ body.name # store[id].name
    /\ update(store, u, id, body).store[id].name = body.name

\* C11 (as claimed): in a soft-delete-enabled resource every stored record
\* has either both deletedAt and deletedBy set or neither of them, whatever
\* creates, updates, deletes and restores were served.
C11_DeletionFieldsPaired ==
  opts.enableSoftDelete =>
    \A id \in DOMAIN store :
      (store[id].deletedAt = Missing) <=> (store[id].deletedBy = Missing)

\* The bookkeeping fields, and a payload without them.
Stamps == {"createdAt", "createdBy", "updatedAt", "updatedBy"}
Strip(body) == [f \in PayloadFields |-> IF f \in Stamps THEN Absent(f) ELSE body[f]]

\* C12 (as claimed): the stored createdAt, updatedAt, createdBy and updatedBy
\* never come from the payload: a create or an update stores the same values
\* for them as the same request without these fields in its payload.
C12_BookkeepingNotFromPayload ==
  \A u \in Users, body \in Bodies :
    /\ CanCreate(body) =>
         LET r == create(store, Used, u, body)
             r0 == create(store, Used, u, Strip(body))
         IN r.resp.status = 201 =>
              /\ r0.resp.status = 201 /\ r0.resp.data = r.resp.data
              /\ \A f \in Stamps :
                   r.store[r.resp.data[1]][f] = r0.store[r.resp.data[1]][f]
    /\ \A id \in DOMAIN store :
         LET r == update(store, u, id, body)
             r0 == update(store, u, id, Strip(body))
         IN r.resp.status = 200 =>
              /\ r0.resp.status = 200
              /\ \A f \in Stamps : r.store[id][f] = r0.store[id][f]

\* C13 (as claimed): errorHandler answers every error with the
\* {success: false, message} envelope, with the status attached to the error
\* when one is attached and with 500 when none is.
C13_ErrorStatus ==
  err.done =>
    /\ err.out.success = FALSE
    /\ err.out.message # ""
    /\ err.out.status = (IF err.status # 0 THEN err.status ELSE 500)

\* A request for the router has been served, and its Bearer token verifies.
Served == svc.last # NoRequest
Verified(h) == h.scheme = "Bearer" /\ h.token # "bad"

\* C14 (as claimed): when the router is mounted with its authentication flag
\* set, a request reaches a handler only after requireAuth has verified its
\* Bearer token and attached a principal; any other request is answered 401
\* and no handler runs.
C14_AuthBeforeHandler ==
  (svc.routerAuth # "false" /\ Served) =>
    IF Verified(svc.last.header)
      THEN svc.last.handled /\ svc.last.user # NoUser
      ELSE ~svc.last.handled /\ svc.last.status = 401

\* C15: when a database connection is required the service listens only once
\* connectMongo has succeeded; when the connection string is absent or the
\* attempt fails the process never listens and exits, with code 1.
C15_ListenAfterConnect ==
  /\ [](svc.requiresMongo /\ svc.listened => svc.connected)
  /\ [](svc.requiresMongo /\ (~svc.uri \/ svc.failed) =>
          /\ ~svc.listened
          /\ svc.pc = "exited" => svc.exitCode = 1)
  /\ (svc.requiresMongo /\ (~svc.uri \/ svc.failed)) ~>
       (svc.pc = "exited" /\ svc.exitCode = 1)

\* C15 witness: the connection attempt of a service that requires the
\* database has failed and the process has exited.
C15_ConnectFailedExit ==
  /\ svc.requiresMongo /\ svc.uri /\ svc.failed
  /\ svc.pc = "exited" /\ ~svc.listened

\* C16: once a signal has reached a started service it accepts no new
\* connection and always exits: with code 0 when the server has closed with
\* no request in flight, or with code 1 at the deadline, 10 s after the
\* first signal, with requests still in flight; further signals change
\* nothing of this.
Signalled == svc.signals > 0
C16_GracefulShutdown ==
  /\ [](Signalled => ~svc.listening)
  /\ Signalled ~> (svc.pc = "exited")
  /\ [](Signalled /\ svc.pc = "exited" =>
          \/ svc.exitCode = 0 /\ svc.inflight = 0
          \/ svc.exitCode = 1 /\ svc.inflight > 0 /\ svc.clock = GraceSeconds)

\* C16 witness: after two signals, the second later than the first, the
\* process was forced to exit with requests in flight.
C16_ForcedExit ==
  /\ svc.signals = MaxSignals /\ Cardinality(svc.timers) > 1
  /\ svc.pc = "exited" /\ svc.exitCode = 1 /\ svc.inflight > 0

\* C17: a create whose payload the validator rejects is answered 400 with the
\* validator's message and stores nothing; an update whose payload the
\* validator rejects is answered 400 and changes no record.
C17_ValidatorRejects ==
  opts.validate =>
    \A u \in Users, body \in Bodies :
      /\ (CanCreate(body) /\ ~validate([body EXCEPT !.user = u]).valid) =>
           LET r == create(store, Used, u, body) IN
           /\ r.resp = fail(400, validate([body EXCEPT !.user = u]).message)
           /\ r.store = store
      /\ ~validate(body).valid =>
           \A id \in ReqIds :
             LET r == update(store, u, id, body) IN
             /\ r.resp.status = 400
             /\ r.store = store

\* C17 witness: with the validators configured, a payload they reject is
\* sent as an update of a record that an update would match.
C17_RejectedUpdate ==
  /\ opts.validate
  /\ \E id \in Ids, u \in Users, body \in Bodies :
       /\ UpdateMatches(id, u)
       /\ ~validate(body).valid /\ Has(body, "deletedAt")
       /\ update(store, u, id, body).resp.status = 400

\* C18 (as claimed): get, update, delete and restore answer 400 for a
\* malformed identifier, whatever the store holds, and leave it unchanged;
\* get, update and restore answer 404 when no record matches the identifier
\* within the ownership and soft-delete scope, and leave the store unchanged.
C18_BadIdAndNotFound ==
  \A u \in Users :
    /\ get(store, u, BadId).status = 400
    /\ \A body \in Bodies :
         /\ update(store, u, BadId, body).resp.status = 400
         /\ update(store, u, BadId, body).store = store
    /\ delete(store, u, BadId).resp.status = 400
    /\ delete(store, u, BadId).store = store
    /\ restoreRoute(store, u, BadId).resp.status = 400
    /\ restoreRoute(store, u, BadId).store = store
    /\ \A id \in Ids :
         /\ Matching(store, Query(id, u, SoftFilter)) = {} =>
              /\ get(store, u, id).status = 404
              /\ \A body \in Bodies :
                   /\ update(store, u, id, body).resp.status = 404
                   /\ update(store, u, id, body).store = store
         /\ Matching(store, Query(id, u, "present")) = {} =>
              /\ restoreRoute(store, u, id).resp.status = 404
              /\ restoreRoute(store, u, id).store = store

\* The e-mail of the payload, compared without case, is the one of a stored
\* user; the payload passes the validations of register.
EmailUsed(body) ==
  /\ body.email # NoEmail
  /\ \E k \in 1..Len(auth.users) : toLowerCase(auth.users[k]) = toLowerCase(body.email)
ValidRegistration(body) ==
  /\ body.password >= MinPassword /\ body.names
  /\ emailRegex(body.email)
NoDuplicateUsers ==
  \A k, l \in 1..Len(auth.users) :
    k # l => toLowerCase(auth.users[k]) # toLowerCase(auth.users[l])

Contains(s, value) ==
  \E k \in 0..(Len(value) - Len(s)) :
     \A j \in 1..Len(s) : Lower(value[k + j]) = Lower(s[j])

\* C20 (as claimed): list with search=s returns exactly the records in the
\* ownership and soft-delete scope whose searchable field contains s, compared
\* without case, and none from outside that scope.
C20_SearchIsSubstring ==
  \A u \in Users, q \in ListQueries :
    (q.search # <<>> /\ q.page = AbsentParam /\ q.limit = AbsentParam) =>
      LET r == list(store, u, q)
          deletedAt == IF opts.enableSoftDelete /\ ~q.includeDeleted
                         THEN "absent" ELSE "any"
          scope == Matching(store, Query(0, ReadOwnerFilter(u), deletedAt))
      IN /\ r.status = 200
         /\ Returned(r) = {i \in scope : Contains(q.search, store[i].name)}

\* C21 (as claimed): in production the body errorHandler sends for an error
\* with no status attached carries the generic internal-error message and is
\* the same whatever the message of the error.
C21_GenericInProduction ==
  (err.done /\ err.env = "production" /\ err.status = 0) =>
    /\ err.out.message = "Internal Server Error"
    /\ \A m \in ErrMessages : errorResponse([err EXCEPT !.message = m]) = err.out

\* the principals other than the one the ownership field of record id names
Others(id) == {b \in Users : b # store[id].user}

\* C22: with allow-public-read and an ownership field, get and list answer
\* every principal alike (no ownership scoping), while update, delete and
\* restore issued by a principal B on a record whose ownership field names
\* another principal match nothing and leave the store unchanged.
C22_PublicReadOwnedWrite ==
  (opts.userField /\ opts.allowPublicRead) =>
    /\ \A id \in ReqIds, a \in Users, b \in Users : get(store, a, id) = get(store, b, id)
    /\ \A q \in ListQueries, a \in Users, b \in Users : list(store, a, q) = list(store, b, q)
    /\ \A id \in DOMAIN store :
         \/ store[id].deletedAt # Missing /\ opts.enableSoftDelete
         \/ get(store, "A", id).status = 200 /\ get(store, "B", id).status = 200
    /\ \A id \in DOMAIN store : \A b \in Others(id) :
         /\ Matching(store, Query(id, OwnerFilter(b), "any")) = {}
         /\ \A body \in Bodies : update(store, b, id, body).store = store
         /\ delete(store, b, id).store = store
         /\ restoreRoute(store, b, id).store = store

\* C22 witness: B reads a record of A that B's update does not match, and a
\* soft-deleted record of A that B's restore does not match.
C22_ForeignRecordRead ==
  \E id \in DOMAIN store, k \in DOMAIN store :
    /\ store[id].user = "A" /\ get(store, "B", id).status = 200
    /\ update(store, "B", id, [NoPayload EXCEPT !.name = <<"O", "t">>]).resp.status = 404
    /\ update(store, "A", id, [NoPayload EXCEPT !.name = <<"O", "t">>]).store # store
    /\ store[k].user = "A" /\ store[k].deletedAt # Missing
    /\ restoreRoute(store, "B", k).resp.status = 404
    /\ restoreRoute(store, "A", k).store # store

\* the records that requests see that do not ask for deleted ones
Live == {id \in DOMAIN store : ~opts.enableSoftDelete \/ store[id].deletedAt = Missing}

\* C27: a request without a principal is given no ownership filter although
\* an ownership field is configured: get, list, update, delete and restore
\* match the records of every owner by their identifier alone.
C27_NoPrincipalNoFilter ==
  opts.userField =>
    /\ OwnerFilter(NoUser) = "any" /\ ReadOwnerFilter(NoUser) = "any"
    /\ Returned(list(store, NoUser, NoQuery)) = Live
    /\ \A id \in Live :
         /\ get(store, NoUser, id).status = 200
         /\ update(store, NoUser, id, NoPayload).resp.status = 200
         /\ update(store, NoUser, id, NoPayload).store[id].updatedAt = Now
         /\ delete(store, NoUser, id).store # store
    /\ \A id \in DOMAIN store \ Live :
         /\ restoreRoute(store, NoUser, id).resp.status = 200
         /\ restoreRoute(store, NoUser, id).store[id].deletedAt = Missing

\* C27 witness: a record whose ownership field names A is read and updated
\* by a request without principal, and a soft-deleted one of A is restored.
C27_AnonymousReachesOwned ==
  \E id \in Live, k \in DOMAIN store \ Live :
    /\ store[id].user = "A" /\ store[k].user = "A"
    /\ get(store, NoUser, id).status = 200
    /\ update(store, NoUser, id, NoPayload).resp.status = 200
    /\ restoreRoute(store, NoUser, k).resp.status = 200

\* the identifiers whose record is not the same in s and in s2
Changed(s, s2) ==
  {i \in DOMAIN s \cup DOMAIN s2 : i \notin DOMAIN s \/ i \notin DOMAIN s2 \/ s[i] # s2[i]}

\* C24: every create, update, delete and restore changes at most one record,
\* the one its identifier addresses or the one it creates; every other record
\* of the collection is as it was.
C24_OneRecordChanged ==
  /\ \A u \in Users, id \in ReqIds :
       /\ \A body \in Bodies : Changed(store, update(store, u, id, body).store) \subseteq {id}
       /\ Changed(store, delete(store, u, id).store) \subseteq {id}
       /\ Changed(store, restoreRoute(store, u, id).store) \subseteq {id}
  /\ \A u \in Users, body \in Bodies :
       CanCreate(body) =>
         LET r == create(store, Used, u, body) IN
           /\ Changed(store, r.store) \subseteq DOMAIN r.store \ DOMAIN store
           /\ Cardinality(Changed(store, r.store)) <= 1
           /\ r.resp.status = 201 => Changed(store, r.store) = {r.resp.data[1]}

\* C24 witness: with two records stored, an update and a delete of one of
\* them each change the collection.
C24_ChangeBesideOthers ==
  \E id \in DOMAIN store, k \in DOMAIN store, u \in Users :
    /\ id # k
    /\ update(store, u, k, [NoPayload EXCEPT !.name = <<"O", "t">>]).store # store
    /\ delete(store, u, k).store # store

\* C25: a record leaves the store through a hard delete only: with soft
\* delete the store holds every identifier ever created, and in either mode
\* no create, update or restore removes a record.
C25_OnlyHardDeleteRemoves ==
  /\ opts.enableSoftDelete =>
       /\ DOMAIN store = Used
       /\ \A u \in Users, id \in ReqIds : DOMAIN delete(store, u, id).store = DOMAIN store
  /\ DOMAIN store \subseteq Used
  /\ \A u \in Users, id \in ReqIds :
       /\ \A body \in Bodies : DOMAIN update(store, u, id, body).store = DOMAIN store
       /\ DOMAIN restoreRoute(store, u, id).store = DOMAIN store
  /\ \A u \in Users, body \in Bodies :
       CanCreate(body) => DOMAIN store \subseteq DOMAIN create(store, Used, u, body).store

\* C25 witness: a record that delete stamped is still in the store, and a
\* further delete leaves it there.
C25_SoftDeletedKept ==
  \E id \in DOMAIN store :
    /\ opts.enableSoftDelete
    /\ store[id].deletedAt = Now /\ store[id].deletedBy \in Users
    /\ id \in DOMAIN delete(store, store[id].user, id).store

\* C26 (as claimed): every health check completes with one of the statuses
\* healthy, unhealthy and timeout no later than 5 seconds after it started;
\* a check the timer cut off is reported as timeout, a connectivity failure
\* or a non-2xx answer as unhealthy.
C26_HealthCheckBounded ==
  \A s \in Services :
    LET c == hc.checks[s] IN
      /\ c.pc \in {"fetching", "reading"} => hc.clock <= HealthTimeoutSeconds
      /\ c.pc = "done" =>
           /\ c.status \in {"healthy", "unhealthy", "timeout"}
           /\ c.at <= HealthTimeoutSeconds
           /\ c.cause = "abort" => c.status = "timeout"
           /\ c.cause \in {"network", "http"} => c.status = "unhealthy"

\* register requests i and j both passed the validations, carry the same
\* e-mail and have been answered
SameEmailAnswered(i, j) ==
  /\ i # j
  /\ auth.regs[i].pc = "done" /\ auth.regs[j].pc = "done"
  /\ ValidRegistration(auth.regs[i].body) /\ ValidRegistration(auth.regs[j].body)
  /\ auth.regs[i].body.email = auth.regs[j].body.email

\* C29 (as claimed): however two register requests with the same e-mail
\* interleave, exactly one user with that e-mail is stored and the request
\* that did not create it is answered 409.
C29_ConcurrentRegister ==
  \A i, j \in 1..MaxRegs :
    SameEmailAnswered(i, j) =>
      /\ Cardinality({k \in 1..Len(auth.users) :
                        auth.users[k] = toLowerCase(auth.regs[i].body.email)}) = 1
      /\ auth.regs[i].answer.status \in {201, 409}
      /\ auth.regs[j].answer.status \in {201, 409}
      /\ ~(auth.regs[i].answer.status = 201 /\ auth.regs[j].answer.status = 201)

\* the fields of the record that the $set of an update with this body writes
Written(body) ==
  {f \in PayloadFields \ {"_id", "createdAt", "createdBy", "updatedAt", "updatedBy"} :
     Has(body, f)}

\* request i is an update whose write is applied in this step while the
\* update k of the same record is in flight, both having matched the record
\* when they were received
UpdateRaces(i, k) ==
  /\ k # i
  /\ flight[i].op = "update" /\ flight[i].pc = "sent" /\ flight'[i].pc = "done"
  /\ flight[k].op = "update" /\ flight[k].pc \in {"sent", "done"}
  /\ flight[k].id = flight[i].id
  /\ flight[i].matched /\ flight[k].matched

\* C23 (as claimed): two concurrent updates of one record are both answered
\* {updated: true}, each is applied whole, and the fields both write hold the
\* value of the write applied last.
C23_LastWriteWins ==
  [][\A i, k \in 1..MaxFlight :
       UpdateRaces(i, k) =>
         /\ flight'[i].status = 200
         /\ \A f \in Written(flight[i].body) :
              store'[flight[i].id][f] = flight[i].body[f]
         /\ \A f \in PayloadFields \ (Written(flight[i].body) \cup {"updatedAt", "updatedBy"}) :
              store'[flight[i].id][f] = store[flight[i].id][f]]_vars

\* C28 (as claimed): list takes its total and its page from one view of the
\* collection: the total it answers is the number of records its query
\* matches in the state its data was read from, and data holds no more
\* records than total - skip.
C28_ListOneView ==
  \A i \in 1..MaxFlight :
    (flight[i].op = "list" /\ flight[i].pc = "done" /\ flight[i].status = 200) =>
      LET skip == buildPagination(flight[i].q.page, flight[i].q.limit,
                                  defaultLimit, maxLimit).skip
      IN /\ flight[i].total = Cardinality(flight[i].seen)
         /\ flight[i].rows <= IF flight[i].total > skip THEN flight[i].total - skip ELSE 0

\* request i is a delete whose database call is applied in this step
DeleteApplied(i) ==
  flight[i].op = "delete" /\ flight[i].pc = "sent" /\ flight'[i].pc = "done"

\* C30: a delete of a soft-deleted record, sent after the first delete or
\* while the first is in flight, leaves deletedAt and deletedBy of the record
\* as the first delete stamped them.
C30_DeleteStampsOnce ==
  [][\A id \in DOMAIN store :
       store[id].deletedAt # Missing =>
         /\ delete(store, "A", id).store = store
         /\ (\E i \in 1..MaxFlight : DeleteApplied(i)) =>
              /\ store'[id].deletedAt = store[id].deletedAt
              /\ store'[id].deletedBy = store[id].deletedBy]_vars

\* C30 witness: of two deletes of one record in flight together, one stamped
\* the record and the other, applied after it, matched nothing.
C30_SecondDeleteMisses ==
  \E i, k \in 1..MaxFlight :
    /\ i # k
    /\ flight[i].op = "delete" /\ flight[k].op = "delete"
    /\ flight[i].id = flight[k].id
    /\ flight[i].pc = "done" /\ flight[k].pc = "done"
    /\ flight[i].matched /\ flight[k].matched
    /\ flight[i].hit /\ ~flight[k].hit
    /\ store[flight[i].id].deletedAt = Now /\ store[flight[i].id].deletedBy = "A"

====
